---- MODULE Spec2Model ----
(***************************************************************************)
(* Adafruit_SH110X: a 1-bit framebuffer with a dirty window, and display() *)
(* which sends the dirty window to a page-addressed OLED over I2C.         *)
(*                                                                         *)
(* display() is the newest variant (the one that reads window_x1..y2);     *)
(* drawPixel/getPixel/clearDisplay are the driver's own pixel code.  The   *)
(* maintenance of window_x1..y2 by the pixel operations lives in the       *)
(* Adafruit_GrayOLED base class, which is not part of these sources: it is *)
(* modelled from the specification (MarkDirty, FullWindow).                *)
(***************************************************************************)
EXTENDS Integers, Sequences, FiniteSets, TLC

\* ------------------------------------------------------------------ bounds
\* Pixel-drawing calls explored in one run on a bus that never fails.
MaxDraws == 2
\* Bus writes that fail in one run on a failing bus, and the pixel-drawing
\* calls explored there.
MaxFailures == 1
MaxDrawsFail == 1
\* Physical display sizes <<WIDTH, HEIGHT>> handed to the constructor.
Dims == {<<3, 9>>}
\* Values the transport's maxBufferSize() may report.
BusSizes == {3, 32, 258}
\* Pixel-level runs (no display()): the drawing calls explored and the sizes.
MaxDrawsPix == 2
DimsPix == {<<2, 9>>, <<3, 2>>}
\* Life-cycle runs (construction, begin(), then use): calls of begin() and
\* drawing calls explored, and the bus size.
MaxBegins == 2
MaxDrawsLife == 1
BusSizesLife == {32}
\* Wide displays: the drawing calls explored, the sizes and the bus size.
MaxDrawsWide == 2
DimsWide == {<<20, 9>>, <<256, 8>>}
BusSizesWide == {3, 32}
\* display() entered with a window given from outside: the values the window's
\* four fields may hold, and the bus sizes.
WinXs == {-1, 0, 2, 1024}
WinYs == {-1, 0, 8, 1024}
BusSizesWin == {3, 32}
\* Runs of display() to its end: the drawing calls explored, the sizes and the
\* bus sizes, the smallest one and those on both sides of 256.
MaxDrawsTerm == 1
DimsTerm == {<<3, 9>>, <<20, 9>>}
BusSizesTerm == {2, 32, 256, 257, 258}
\* Life-cycle runs that read pixels back: the coordinates asked for.
GetXs == {-1, 1}
GetYs == {1}

\* ------------------------------------------------------- program constants
SH110X_BLACK == 0
SH110X_WHITE == 1
SH110X_INVERSE == 2
SH110X_SETPAGEADDR == 176
DC_BYTE == 64
WINDOW_UNSET_MIN == 1024
WINDOW_UNSET_MAX == -1

VARIABLES
  WIDTH, HEIGHT,      \* physical size, fixed by the constructor
  rotation,           \* Adafruit_GFX rotation, 0..3
  buffer,             \* framebuffer: index -> byte
  window,             \* dirty window [x1, y1, x2, y2]
  maxBufferSize,      \* what i2c_dev->maxBufferSize() reports
  pc,                 \* "idle", or the position inside display()
  p,                  \* display(): page loop variable (uint8_t)
  ptr,                \* display(): ptr - buffer
  bytes_remaining,    \* display(): uint8_t bytes_remaining
  devRam,             \* controller RAM: index -> byte
  dev_page, dev_col,  \* controller address registers
  log,                \* bus writes issued by the running / last display()
  draws_left,         \* drawing calls the run may still make
  fails_left,         \* bus writes the transport may still fail
  ever_failed,        \* some bus write has failed since begin()
  last_op,            \* the last pixel-level operation or "display"
  pre,                \* the window at entry of the last display()
  flush_failed,       \* some bus write of the last display() failed
  retry_of,           \* window at entry of a failed display() that the last
                      \* display() directly retried, or NoWindow
  written,            \* physical pixels written since the window was reset
  ncalls,             \* drawing calls since the window was reset (capped at 2)
  allocated,          \* buffer != NULL
  theWire,            \* _theWire != NULL: the object was constructed for I2C
  i2c_dev,            \* "null", or the device begin() made: "ready" / "failed"
  fault,              \* the last access through a bad pointer, or "none"
  begin_info,         \* what the last begin() met, did and returned
  begins_left,        \* calls of begin() the run may still make
  calls               \* the last pixel-level calls, where a run observes them

vars == <<WIDTH, HEIGHT, rotation, buffer, window, maxBufferSize, pc, p, ptr,
          bytes_remaining, devRam, dev_page, dev_col, log, draws_left, fails_left,
          ever_failed, last_op, pre, flush_failed, retry_of, written, ncalls,
          allocated, theWire, i2c_dev, fault, begin_info, begins_left, calls>>

\* What only begin() changes.
object == <<allocated, theWire, i2c_dev, begin_info, begins_left>>

\* --------------------------------------------------------------- integers
U8(n) == n % 256
U16(n) == n % 65536
Min(a, b) == IF a < b THEN a ELSE b
Max(a, b) == IF a > b THEN a ELSE b
\* C integer division truncates toward zero.
CDiv(a, b) == IF a >= 0 THEN a \div b ELSE -((-a) \div b)

Bit(v, b) == (v \div (2 ^ b)) % 2
OrBit(v, b) == IF Bit(v, b) = 1 THEN v ELSE v + 2 ^ b
AndNotBit(v, b) == IF Bit(v, b) = 1 THEN v - 2 ^ b ELSE v
XorBit(v, b) == IF Bit(v, b) = 1 THEN v - 2 ^ b ELSE v + 2 ^ b

\* ------------------------------------------------------------ framebuffer
BufLen == WIDTH * ((HEIGHT + 7) \div 8)
\* Mutant of Zeros: the memset fills with 0xFF.
Zeros_ff == [i \in 0 .. BufLen - 1 |-> 255]
Zeros == [i \in 0 .. BufLen - 1 |-> 0]

\* Adafruit_GFX width()/height(): swapped under rotations 1 and 3.
LogicalWidth == IF rotation \in {1, 3} THEN HEIGHT ELSE WIDTH
LogicalHeight == IF rotation \in {1, 3} THEN WIDTH ELSE HEIGHT

\* Mutant of InBounds: the upper limits included.
InBounds_inclusive(x, y) ==
  (x >= 0) /\ (x <= LogicalWidth) /\ (y >= 0) /\ (y <= LogicalHeight)

InBounds(x, y) == (x >= 0) /\ (x < LogicalWidth) /\ (y >= 0) /\ (y < LogicalHeight)

\* Mutant of Rotate: rotations 1 and 3 mirror and do not swap the axes.
Rotate_noSwap(x, y) ==
  CASE rotation = 1 -> <<WIDTH - x - 1, y>>
    [] rotation = 2 -> <<WIDTH - x - 1, HEIGHT - y - 1>>
    [] rotation = 3 -> <<x, HEIGHT - y - 1>>
    [] OTHER -> <<x, y>>

\* Mutant of Rotate: rotation 1 swaps the axes and mirrors neither.
Rotate_swapOnly(x, y) ==
  CASE rotation = 1 -> <<y, x>>
    [] rotation = 2 -> <<WIDTH - x - 1, HEIGHT - y - 1>>
    [] rotation = 3 -> <<y, HEIGHT - x - 1>>
    [] OTHER -> <<x, y>>

\* The switch (getRotation()) of drawPixel: logical -> physical.
Rotate(x, y) ==
  CASE rotation = 1 -> <<WIDTH - y - 1, x>>
    [] rotation = 2 -> <<WIDTH - x - 1, HEIGHT - y - 1>>
    [] rotation = 3 -> <<y, HEIGHT - x - 1>>
    [] OTHER -> <<x, y>>

\* The bounds check of getPixel, which is a copy of its own.
InBoundsGet(x, y) == (x >= 0) /\ (x < LogicalWidth) /\ (y >= 0) /\ (y < LogicalHeight)

\* The switch (getRotation()) of getPixel, which is a copy of its own.
RotateGet(x, y) ==
  CASE rotation = 1 -> <<WIDTH - y - 1, x>>
    [] rotation = 2 -> <<WIDTH - x - 1, HEIGHT - y - 1>>
    [] rotation = 3 -> <<y, HEIGHT - x - 1>>
    [] OTHER -> <<x, y>>

\* Mutant of BufIndex: the coordinates taken in the wrong order.
BufIndex_swapped(x, y) == y + (x \div 8) * WIDTH

\* buffer[x + (y/8)*WIDTH], bit (y&7), for physical x, y.
BufIndex(x, y) == x + (y \div 8) * WIDTH
BitOf(y) == y % 8

\* Mutant of ApplyColor: the switch has a default that sets the bit.
ApplyColor_defaultSets(v, b, color) ==
  CASE color = SH110X_WHITE -> OrBit(v, b)
    [] color = SH110X_BLACK -> AndNotBit(v, b)
    [] color = SH110X_INVERSE -> XorBit(v, b)
    [] OTHER -> OrBit(v, b)

\* Mutant of ApplyColor: SH110X_INVERSE sets the bit.
ApplyColor_inverseSets(v, b, color) ==
  CASE color = SH110X_WHITE -> OrBit(v, b)
    [] color = SH110X_BLACK -> AndNotBit(v, b)
    [] color = SH110X_INVERSE -> OrBit(v, b)
    [] OTHER -> v

\* The switch (color) of drawPixel on one byte.
ApplyColor(v, b, color) ==
  CASE color = SH110X_WHITE -> OrBit(v, b)
    [] color = SH110X_BLACK -> AndNotBit(v, b)
    [] color = SH110X_INVERSE -> XorBit(v, b)
    [] OTHER -> v

GetPixel(x, y) ==
  IF InBoundsGet(x, y)
  THEN LET q == RotateGet(x, y) IN Bit(buffer[BufIndex(q[1], q[2])], BitOf(q[2])) = 1
  ELSE FALSE

\* ----------------------------------------------------------- dirty window
\* "no such window" for the history variable retry_of.
NoWindow == [x1 |-> -2, y1 |-> -2, x2 |-> -2, y2 |-> -2]
UnsetWindow == [x1 |-> WINDOW_UNSET_MIN, y1 |-> WINDOW_UNSET_MIN,
                x2 |-> WINDOW_UNSET_MAX, y2 |-> WINDOW_UNSET_MAX]
FullWindow == [x1 |-> 0, y1 |-> 0, x2 |-> WIDTH - 1, y2 |-> HEIGHT - 1]
MarkDirty(w, x, y) == [x1 |-> Min(w.x1, x), y1 |-> Min(w.y1, y),
                       x2 |-> Max(w.x2, x), y2 |-> Max(w.y2, y)]

\* -------------------------------------------------- pixel-level operations
\* The history variables describe the last display() only until the next
\* drawing call.
ForgetDisplay ==
  /\ log' = <<>>
  /\ pre' = NoWindow
  /\ flush_failed' = FALSE
  /\ retry_of' = NoWindow

\* An access through a null pointer: the program traps, or it goes on to
\* next_pc (the bytes at the far end of the pointer are not the model's).
NullAccess(what, next_pc) ==
  /\ fault' = what
  /\ pc' \in {next_pc, "halt"}

\* drawPixel(x, y, color): out-of-bounds calls change nothing.  written records
\* the pixel of the byte and bit the call wrote.  buffer is not tested: before
\* a successful malloc the three cases of switch (color) go through NULL.
DrawPixel(x, y, color) ==
  /\ pc = "idle"
  /\ draws_left > 0
  /\ draws_left' = draws_left - 1
  /\ last_op' = "draw"
  /\ IF InBounds(x, y) /\ ~allocated
        /\ color \in {SH110X_BLACK, SH110X_WHITE, SH110X_INVERSE}
     THEN NullAccess("drawPixel", "idle")
     ELSE UNCHANGED <<pc, fault>>
  /\ IF InBounds(x, y) /\ allocated
     THEN LET q == Rotate(x, y)
              i == BufIndex(q[1], q[2])
          IN /\ buffer' = [buffer EXCEPT ![i] = ApplyColor(@, BitOf(q[2]), color)]
             /\ window' = MarkDirty(window, q[1], q[2])
             /\ written' = IF color \in {SH110X_BLACK, SH110X_WHITE, SH110X_INVERSE}
                           THEN written \cup {<<i % WIDTH, (i \div WIDTH) * 8 + BitOf(q[2])>>}
                           ELSE written
             /\ ncalls' = Min(ncalls + 1, 2)
     ELSE UNCHANGED <<buffer, window, written, ncalls>>
  /\ ForgetDisplay
  /\ UNCHANGED <<WIDTH, HEIGHT, rotation, maxBufferSize, p, ptr, bytes_remaining,
                 devRam, dev_page, dev_col, fails_left, ever_failed, object>>

\* clearDisplay(): memset, and the whole buffer becomes dirty.  buffer is not
\* tested: before a successful malloc the memset goes through NULL.
ClearDisplay ==
  /\ pc = "idle"
  /\ IF allocated
     THEN /\ buffer' = Zeros
          /\ window' = FullWindow
          /\ written' = (0 .. WIDTH - 1) \X (0 .. HEIGHT - 1)
          /\ ncalls' = Min(ncalls + 1, 2)
          /\ UNCHANGED <<pc, fault>>
     ELSE /\ NullAccess("clearDisplay", "idle")
          /\ UNCHANGED <<buffer, window, written, ncalls>>
  /\ last_op' = "clear"
  /\ ForgetDisplay
  /\ UNCHANGED <<WIDTH, HEIGHT, rotation, maxBufferSize, p, ptr, bytes_remaining,
                 devRam, dev_page, dev_col, draws_left, fails_left, ever_failed,
                 object>>

\* getPixel(x, y) as a call: the caller gets ret, which the call leaves in
\* calls.  buffer is not tested: before a successful malloc an in-bounds call
\* reads through NULL and what it returns is anyone's guess.
GetPixelCall(x, y, ret) ==
  /\ pc = "idle"
  /\ IF InBoundsGet(x, y) /\ ~allocated
     THEN NullAccess("getPixel", "idle")
     ELSE ret = GetPixel(x, y) /\ UNCHANGED <<pc, fault>>
  /\ calls' = <<[op |-> "get", x |-> x, y |-> y, color |-> 0, was |-> ret,
                 buf |-> buffer, win |-> window]>>
  /\ UNCHANGED <<WIDTH, HEIGHT, rotation, buffer, window, maxBufferSize, p, ptr,
                 bytes_remaining, devRam, dev_page, dev_col, log, draws_left,
                 fails_left, ever_failed, last_op, pre, flush_failed, retry_of,
                 written, ncalls, object>>

\* Adafruit_GFX setRotation(r): r & 3.
SetRotation(r) ==
  /\ pc = "idle"
  /\ rotation' = r % 4
  /\ UNCHANGED <<WIDTH, HEIGHT, buffer, window, maxBufferSize, pc, p, ptr,
                 bytes_remaining, devRam, dev_page, dev_col, log, draws_left,
                 fails_left, ever_failed, last_op, pre, flush_failed, retry_of,
                 written, ncalls, fault, object>>

\* ------------------------------------------------------------- controller
\* One command byte received by the controller: 0xB0..0xBF page address,
\* 0x10..0x17 higher column address, 0x00..0x0F lower column address.
DevCommandByte(reg, c) ==
  CASE c >= 176 /\ c <= 191 -> [reg EXCEPT !.page = c - 176]
    [] c >= 16 /\ c <= 23 -> [reg EXCEPT !.col = (c - 16) * 16 + (reg.col % 16)]
    [] c >= 0 /\ c <= 15 -> [reg EXCEPT !.col = (reg.col \div 16) * 16 + c]
    [] OTHER -> reg

\* A command transfer: the bytes after the 0x00 control byte, in order.
RECURSIVE DevCommands(_, _, _)
DevCommands(reg, cmd, k) ==
  IF k > Len(cmd) THEN reg ELSE DevCommands(DevCommandByte(reg, cmd[k]), cmd, k + 1)

\* A data transfer: each byte is stored at the column pointer, which advances.
RECURSIVE DevStore(_, _, _, _, _)
DevStore(ram, pg, col, data, k) ==
  IF k > Len(data) THEN ram
  ELSE LET a == pg * WIDTH + col
           r == IF col < WIDTH /\ a \in DOMAIN ram THEN [ram EXCEPT ![a] = data[k]] ELSE ram
       IN DevStore(r, pg, col + 1, data, k + 1)

\* ---------------------------------------------------------------- display
\* The locals display() computes on entry; the window, WIDTH and HEIGHT do not
\* change until its last four lines, so they are functions of the state.
pages == U8((HEIGHT + 7) \div 8)
bytes_per_page == U8(WIDTH)
maxbuff == U16(maxBufferSize - 1)
\* Mutant of first_page: the narrowing applied before the division.
first_page_narrowed == CDiv(U8(window.y1), 8)
first_page == U8(CDiv(window.y1, 8))
last_page == U8(CDiv(window.y2 + 7, 8))
page_start == Min(bytes_per_page, U8(window.x1))
page_end == U8(Max(0, window.x2))

\* Mutant of PageSelectCmd: the column address left at 0, as display() sent it
\* before it had a dirty window.
PageSelectCmd_column0(pg, col) == <<0, U8(SH110X_SETPAGEADDR + pg), 16, 0>>

\* Mutant of PageSelectCmd: the two nibbles of the column in each other's place.
PageSelectCmd_nibblesSwapped(pg, col) ==
  <<0, U8(SH110X_SETPAGEADDR + pg), U8(16 + (col % 16)), col \div 16>>

\* uint8_t cmd[] = {0x00, SH110X_SETPAGEADDR + p, 0x10 + (page_start >> 4), page_start & 0xF}
PageSelectCmd(pg, col) ==
  <<0, U8(SH110X_SETPAGEADDR + pg), U8(16 + (col \div 16)), col % 16>>

\* bytes_remaining after "fast forward" and "cut off end".
PageBytes == U8(U8(bytes_per_page - page_start) - ((WIDTH - 1) - page_end))

\* to_write = min(bytes_remaining, (uint8_t)maxbuff)
ToWrite(rem) == Min(rem, U8(maxbuff))

\* Stands for a byte read beyond the end of the buffer: no byte value, as
\* nothing is known of what lies there.
BeyondBuffer == -1
\* The n bytes at ptr handed to the transport.
Payload(from, n) ==
  [k \in 1 .. n |-> IF from + k - 1 \in DOMAIN buffer THEN buffer[from + k - 1]
                    ELSE BeyondBuffer]

\* Mutant of NextPage: the page loop counting down.
NextPage_down(pg) == U8(pg - 1)

\* The p++ of for (uint8_t p = first_page; p < pages; p++).
NextPage(pg) == U8(pg + 1)

\* Entry of display(): nothing is written yet.  maxBufferSize() is called
\* through i2c_dev before if (i2c_dev) looks at it; a run that survives the
\* call with i2c_dev null takes the empty else branch.
DisplayBegin ==
  /\ pc = "idle"
  /\ IF i2c_dev = "null"
     THEN NullAccess("display", "else")
     ELSE pc' = "page" /\ UNCHANGED fault
  /\ p' = first_page
  /\ log' = <<>>
  /\ pre' = window
  /\ flush_failed' = FALSE
  /\ retry_of' = IF last_op = "display" /\ flush_failed THEN pre ELSE NoWindow
  /\ last_op' = "display"
  /\ UNCHANGED <<WIDTH, HEIGHT, rotation, buffer, window, maxBufferSize, ptr,
                 bytes_remaining, devRam, dev_page, dev_col, draws_left, fails_left,
                 ever_failed, written, ncalls, object>>

\* One pass of the for loop up to and including i2c_dev->write(cmd, 4); the
\* result of the write is not looked at.
DisplayPage ==
  /\ pc = "page"
  /\ p < pages
  /\ \E ok \in BOOLEAN :
       /\ ok \/ fails_left > 0
       /\ fails_left' = IF ok THEN fails_left ELSE fails_left - 1
       /\ flush_failed' = (flush_failed \/ ~ok)
       /\ ever_failed' = (ever_failed \/ ~ok)
       /\ LET cmd == PageSelectCmd(p, page_start)
              reg == DevCommands([page |-> dev_page, col |-> dev_col], cmd, 2)
          IN /\ log' = Append(log, [kind |-> "cmd", page |-> p, col |-> page_start,
                                    bytes |-> cmd, ok |-> ok])
             /\ dev_page' = IF ok THEN reg.page ELSE dev_page
             /\ dev_col' = IF ok THEN reg.col ELSE dev_col
  /\ ptr' = p * bytes_per_page + page_start
  /\ bytes_remaining' = PageBytes
  /\ IF PageBytes = 0
     THEN pc' = "page" /\ p' = NextPage(p)
     ELSE pc' = "chunk" /\ p' = p
  /\ UNCHANGED <<WIDTH, HEIGHT, rotation, buffer, window, maxBufferSize, devRam,
                 draws_left, last_op, pre, retry_of, written, ncalls, fault, object>>

\* One pass of the while loop; after the last one the for loop's p++.  The
\* transport reads to_write bytes at ptr, wherever ptr points: beyond the
\* buffer the read traps or finds bytes that are not the buffer's.  Of a run
\* of equal writes of no bytes log holds the last one or the last two.
DisplayChunk ==
  /\ pc = "chunk"
  /\ bytes_remaining # 0
  /\ LET to_write == ToWrite(bytes_remaining)
         overread == to_write > 0 /\ ptr + to_write > BufLen
         next_pc == IF U8(bytes_remaining - to_write) = 0 THEN "page" ELSE "chunk"
     IN /\ \E ok \in BOOLEAN :
             LET data == Payload(ptr, to_write)
                 e == [kind |-> "data", page |-> p, col |-> ptr - p * bytes_per_page,
                       bytes |-> <<DC_BYTE>> \o data, ok |-> ok]
             IN /\ ok \/ fails_left > 0
                /\ fails_left' = IF ok THEN fails_left ELSE fails_left - 1
                /\ flush_failed' = (flush_failed \/ ~ok)
                /\ ever_failed' = (ever_failed \/ ~ok)
                /\ log' = IF to_write = 0 /\ log[Len(log)] = e /\ log[Len(log) - 1] = e
                          THEN SubSeq(log, 1, Len(log) - 1)
                          ELSE Append(log, e)
                /\ devRam' = IF ok THEN DevStore(devRam, dev_page, dev_col, data, 1)
                             ELSE devRam
                /\ dev_col' = IF ok THEN dev_col + to_write ELSE dev_col
        /\ ptr' = ptr + to_write
        /\ bytes_remaining' = U8(bytes_remaining - to_write)
        /\ p' = IF next_pc = "page" THEN NextPage(p) ELSE p
        /\ IF overread
           THEN fault' = "overread" /\ pc' \in {next_pc, "halt"}
           ELSE pc' = next_pc /\ UNCHANGED fault
  /\ UNCHANGED <<WIDTH, HEIGHT, rotation, buffer, window, maxBufferSize, dev_page,
                 draws_left, last_op, pre, retry_of, written, ncalls, object>>

\* Mutant of ResetWindow: only the x range is reset.
ResetWindow_xOnly == [window EXCEPT !.x1 = WINDOW_UNSET_MIN, !.x2 = WINDOW_UNSET_MAX]

\* The for loop is over: "reset dirty window", whatever the writes returned.
ResetWindow == UnsetWindow

\* Mutant of DisplayEnd: display() clears the buffer it has sent.
DisplayEnd_clearsBuffer ==
  /\ \/ pc = "page" /\ ~(p < pages)
     \/ pc = "else"
  /\ window' = ResetWindow
  /\ buffer' = Zeros
  /\ pc' = "idle"
  /\ written' = {}
  /\ ncalls' = 0
  /\ p' = 0
  /\ ptr' = 0
  /\ bytes_remaining' = 0
  /\ UNCHANGED <<WIDTH, HEIGHT, rotation, maxBufferSize, devRam, dev_page,
                 dev_col, log, draws_left, fails_left, ever_failed, last_op, pre,
                 flush_failed, retry_of, fault, object>>

DisplayEnd ==
  /\ \/ pc = "page" /\ ~(p < pages)
     \/ pc = "else"
  /\ window' = ResetWindow
  /\ pc' = "idle"
  /\ written' = {}
  /\ ncalls' = 0
  /\ p' = 0
  /\ ptr' = 0
  /\ bytes_remaining' = 0
  /\ UNCHANGED <<WIDTH, HEIGHT, rotation, buffer, maxBufferSize, devRam, dev_page,
                 dev_col, log, draws_left, fails_left, ever_failed, last_op, pre,
                 flush_failed, retry_of, fault, object>>

\* ------------------------------------------------------------------ begin
NoBegin == [by |-> "none", fail |-> "nocall", result |-> FALSE, init_sent |-> FALSE,
            cleared |-> FALSE]

\* What malloc'ed memory may hold before anything is written to it.
Junk == {[i \in 0 .. BufLen - 1 |-> 0], [i \in 0 .. BufLen - 1 |-> 255]}

\* The splash bitmap begin() draws is data of splash.h: a blank one, and one
\* with a set pixel at logical (1, 1).
SplashChoices == {<<>>, <<1, 1>>}
Splashed(s) ==
  IF s = <<>> \/ ~InBounds(s[1], s[2]) THEN Zeros
  ELSE LET q == Rotate(s[1], s[2])
       IN [Zeros EXCEPT ![BufIndex(q[1], q[2])] = ApplyColor(@, BitOf(q[2]), SH110X_WHITE)]

\* begin(): malloc unless there is a buffer already; the bus: a new
\* Adafruit_I2CDevice and its begin(), or spi_dev->begin(); clearDisplay() and
\* the splash; the init sequence.  alloc_ok, bus_ok and cmds_ok say what malloc,
\* the bus begin() and sh110x_commandList meet; ret is what the caller reads
\* after the SPI branch's "return;", which names no value.
Begin(alloc_ok, bus_ok, cmds_ok, ret, junk, splash) ==
  /\ pc = "idle"
  /\ begins_left > 0
  /\ begins_left' = begins_left - 1
  /\ begin_info.by \in {"none", "Begin"}
  /\ IF ~(allocated \/ alloc_ok)
     THEN /\ begin_info' = [by |-> "Begin", fail |-> "alloc", result |-> FALSE,
                            init_sent |-> FALSE, cleared |-> FALSE]
          /\ UNCHANGED <<allocated, i2c_dev, buffer, window, written, ncalls, last_op,
                         log, pre, flush_failed, retry_of, dev_page>>
     ELSE IF ~bus_ok
     THEN /\ allocated' = TRUE
          /\ buffer' = IF allocated THEN buffer ELSE junk
          /\ i2c_dev' = IF theWire THEN "failed" ELSE i2c_dev
          /\ begin_info' = [by |-> "Begin", fail |-> "bus",
                            result |-> IF theWire THEN FALSE ELSE ret,
                            init_sent |-> FALSE, cleared |-> FALSE]
          /\ UNCHANGED <<window, written, ncalls, last_op, log, pre, flush_failed,
                         retry_of, dev_page>>
     ELSE /\ allocated' = TRUE
          /\ i2c_dev' = IF theWire THEN "ready" ELSE i2c_dev
          /\ buffer' = Splashed(splash)
          /\ window' = FullWindow
          /\ written' = (0 .. WIDTH - 1) \X (0 .. HEIGHT - 1)
          /\ ncalls' = IF splash = <<>> THEN 1 ELSE 2
          /\ last_op' = IF splash = <<>> THEN "clear" ELSE "draw"
          /\ ForgetDisplay
          /\ dev_page' = IF cmds_ok THEN 0 ELSE dev_page
          /\ begin_info' = [by |-> "Begin", fail |-> "none", result |-> cmds_ok,
                            init_sent |-> TRUE, cleared |-> TRUE]
  /\ UNCHANGED <<WIDTH, HEIGHT, rotation, maxBufferSize, pc, p, ptr, bytes_remaining,
                 devRam, dev_col, draws_left, fails_left, ever_failed, theWire, fault>>

\* begin() of the driver that sits on Adafruit_GrayOLED: _init(addr, reset),
\* whose result is not looked at, then setContrast(0x2F) and the init sequence;
\* the result of oled_commandList is the result of begin().  _init is the base
\* class's: it allocates the buffer and begins the bus, clears the buffer and
\* makes it wholly dirty, and stops at the first of these that fails.  The
\* splash is drawn on 64x128 displays only.
Begin_GrayOLED(alloc_ok, bus_ok, cmds_ok, junk) ==
  /\ pc = "idle"
  /\ begins_left > 0
  /\ begins_left' = begins_left - 1
  /\ begin_info.by \in {"none", "Begin_GrayOLED"}
  /\ IF ~(allocated \/ alloc_ok)
     THEN UNCHANGED <<allocated, i2c_dev, buffer, window, written, ncalls, last_op,
                      log, pre, flush_failed, retry_of>>
     ELSE IF ~bus_ok
     THEN /\ allocated' = TRUE
          /\ buffer' = IF allocated THEN buffer ELSE junk
          /\ i2c_dev' = IF theWire THEN "failed" ELSE i2c_dev
          /\ UNCHANGED <<window, written, ncalls, last_op, log, pre, flush_failed,
                         retry_of>>
     ELSE /\ allocated' = TRUE
          /\ i2c_dev' = IF theWire THEN "ready" ELSE i2c_dev
          /\ buffer' = Zeros
          /\ window' = FullWindow
          /\ written' = (0 .. WIDTH - 1) \X (0 .. HEIGHT - 1)
          /\ ncalls' = 1
          /\ last_op' = "clear"
          /\ ForgetDisplay
  /\ begin_info' = [by |-> "Begin_GrayOLED",
                    fail |-> IF ~(allocated \/ alloc_ok) THEN "alloc"
                             ELSE IF ~bus_ok THEN "bus" ELSE "none",
                    result |-> cmds_ok, init_sent |-> TRUE,
                    cleared |-> (allocated \/ alloc_ok) /\ bus_ok]
  /\ UNCHANGED <<WIDTH, HEIGHT, rotation, maxBufferSize, pc, p, ptr, bytes_remaining,
                 devRam, dev_page, dev_col, draws_left, fails_left, ever_failed, theWire,
                 fault>>

\* ---------------------------------------------------------- specification
Colors == {SH110X_BLACK, SH110X_WHITE, SH110X_INVERSE, 3}

\* After begin(): the buffer is cleared and wholly dirty, nothing has been sent;
\* the controller's RAM does not hold the buffer's contents yet.  With flushed,
\* after begin() and one display() that sent it all.
InitOn(dims, sizes, draws, fails, flushed) ==
  /\ \E d \in dims : WIDTH = d[1] /\ HEIGHT = d[2]
  /\ rotation = 0
  /\ buffer = Zeros
  /\ window = IF flushed THEN UnsetWindow ELSE FullWindow
  /\ maxBufferSize \in sizes
  /\ pc = "idle"
  /\ p = 0
  /\ ptr = 0
  /\ bytes_remaining = 0
  /\ devRam = IF flushed THEN Zeros ELSE [i \in 0 .. BufLen - 1 |-> 255]
  /\ dev_page = 0
  /\ dev_col = 0
  /\ log = <<>>
  /\ draws_left = draws
  /\ fails_left = fails
  /\ ever_failed = FALSE
  /\ last_op = IF flushed THEN "display" ELSE "clear"
  /\ pre = NoWindow
  /\ flush_failed = FALSE
  /\ retry_of = NoWindow
  /\ written = IF flushed THEN {} ELSE (0 .. WIDTH - 1) \X (0 .. HEIGHT - 1)
  /\ ncalls = IF flushed THEN 0 ELSE 1
  /\ allocated = TRUE
  /\ theWire = TRUE
  /\ i2c_dev = "ready"
  /\ fault = "none"
  /\ begin_info = [by |-> "Begin", fail |-> "none", result |-> TRUE, init_sent |-> TRUE,
                   cleared |-> TRUE]
  /\ begins_left = 0
  /\ calls = <<>>

InitWith(draws, fails) == InitOn(Dims, BusSizes, draws, fails, FALSE)

Next ==
  \/ \E x \in -1 .. LogicalWidth, y \in -1 .. LogicalHeight, c \in Colors :
       DrawPixel(x, y, c) /\ UNCHANGED calls
  \/ ClearDisplay /\ UNCHANGED calls
  \/ \E r \in 0 .. 3 : SetRotation(r) /\ UNCHANGED calls
  \/ DisplayBegin /\ UNCHANGED calls
  \/ DisplayPage /\ UNCHANGED calls
  \/ DisplayChunk /\ UNCHANGED calls
  \/ DisplayEnd /\ UNCHANGED calls

\* The pixel-level calls as a run of the pixel operations alone observes them:
\* the arguments, and the pixel, the buffer and the window before the call.
\* calls holds the last two, made under the present rotation.
Last2(s) == IF Len(s) > 2 THEN SubSeq(s, 2, 3) ELSE s
Observed(op, x, y, color) ==
  calls' = Last2(Append(calls, [op |-> op, x |-> x, y |-> y, color |-> color,
                                was |-> GetPixel(x, y), buf |-> buffer, win |-> window]))

NextPix ==
  \/ \E x \in -1 .. LogicalWidth, y \in -1 .. LogicalHeight, c \in Colors :
       DrawPixel(x, y, c) /\ Observed("draw", x, y, c)
  \/ ClearDisplay /\ Observed("clear", 0, 0, 0)
  \/ \E r \in 0 .. 3 : SetRotation(r) /\ calls' = <<>>

\* The pixel operations alone, after begin() and a display(), on several sizes.
InitPix == InitOn(DimsPix, {32}, MaxDrawsPix, 0, TRUE)
SpecPix == InitPix /\ [][NextPix]_vars

\* A freshly constructed object in static storage (members zero before the
\* constructor runs): no buffer, no I2C device, and _theWire set or not by the
\* constructor that was used.  The window has no value yet.
InitLife ==
  /\ \E d \in Dims : WIDTH = d[1] /\ HEIGHT = d[2]
  /\ rotation = 0
  /\ buffer = <<>>
  /\ window \in {UnsetWindow, FullWindow}
  /\ maxBufferSize \in BusSizesLife
  /\ pc = "idle"
  /\ p = 0
  /\ ptr = 0
  /\ bytes_remaining = 0
  /\ devRam = [i \in 0 .. BufLen - 1 |-> 255]
  /\ dev_page = 0
  /\ dev_col = 0
  /\ log = <<>>
  /\ draws_left = MaxDrawsLife
  /\ fails_left = 0
  /\ ever_failed = FALSE
  /\ last_op = "none"
  /\ pre = NoWindow
  /\ flush_failed = FALSE
  /\ retry_of = NoWindow
  /\ written = {}
  /\ ncalls = 0
  /\ allocated = FALSE
  /\ theWire \in BOOLEAN
  /\ i2c_dev = "null"
  /\ fault = "none"
  /\ begin_info = NoBegin
  /\ begins_left = MaxBegins
  /\ calls = <<>>

NextLife ==
  \/ \E alloc_ok, bus_ok, cmds_ok, ret \in BOOLEAN, junk \in Junk, splash \in SplashChoices :
       Begin(alloc_ok, bus_ok, cmds_ok, ret, junk, splash) /\ UNCHANGED calls
  \/ \E alloc_ok, bus_ok, cmds_ok \in BOOLEAN, junk \in Junk :
       Begin_GrayOLED(alloc_ok, bus_ok, cmds_ok, junk) /\ UNCHANGED calls
  \/ \E x \in -1 .. LogicalWidth, y \in -1 .. LogicalHeight, c \in Colors :
       DrawPixel(x, y, c) /\ UNCHANGED calls
  \/ ClearDisplay /\ UNCHANGED calls
  \/ DisplayBegin /\ UNCHANGED calls
  \/ DisplayPage /\ UNCHANGED calls
  \/ DisplayChunk /\ UNCHANGED calls
  \/ DisplayEnd /\ UNCHANGED calls

\* From construction on: begin(), which may fail, and the operations before
\* and after it.
SpecLife == InitLife /\ [][NextLife]_vars

\* Wide displays: the columns at both ends, one below and one above 16.
WideXs == {0, 3, 17, WIDTH - 1}
WideYs == {0, HEIGHT - 1}

NextWide ==
  \/ \E x \in WideXs, y \in WideYs, c \in {SH110X_WHITE, SH110X_INVERSE} :
       DrawPixel(x, y, c) /\ UNCHANGED calls
  \/ DisplayBegin /\ UNCHANGED calls
  \/ DisplayPage /\ UNCHANGED calls
  \/ DisplayChunk /\ UNCHANGED calls
  \/ DisplayEnd /\ UNCHANGED calls

\* display() on displays with columns beyond 15 and beyond 255.
InitWide == InitOn(DimsWide, BusSizesWide, MaxDrawsWide, 0, FALSE)
SpecWide == InitWide /\ [][NextWide]_vars

\* window_x1 .. window_y2 are protected int16_t members of the base class that
\* no constructor under src/ sets and display() reads as it finds them (a
\* derived class may write them; a begin() that stopped before clearDisplay()
\* left them without a value): display() entered with the buffer drawn on
\* and the window any rectangle, well-formed or not.
InitWin ==
  /\ \E d \in Dims : WIDTH = d[1] /\ HEIGHT = d[2]
  /\ rotation = 0
  /\ buffer = [i \in 0 .. BufLen - 1 |-> i + 1]
  /\ window \in [x1 : WinXs, y1 : WinYs, x2 : WinXs, y2 : WinYs]
  /\ maxBufferSize \in BusSizesWin
  /\ pc = "idle"
  /\ p = 0
  /\ ptr = 0
  /\ bytes_remaining = 0
  /\ devRam = Zeros
  /\ dev_page = 0
  /\ dev_col = 0
  /\ log = <<>>
  /\ draws_left = 0
  /\ fails_left = 0
  /\ ever_failed = FALSE
  /\ last_op = "draw"
  /\ pre = NoWindow
  /\ flush_failed = FALSE
  /\ retry_of = NoWindow
  /\ written = {}
  /\ ncalls = 0
  /\ allocated = TRUE
  /\ theWire = TRUE
  /\ i2c_dev = "ready"
  /\ fault = "none"
  /\ begin_info = [by |-> "Begin", fail |-> "none", result |-> TRUE, init_sent |-> TRUE,
                   cleared |-> TRUE]
  /\ begins_left = 0
  /\ calls = <<>>

NextWin ==
  \/ DisplayBegin /\ UNCHANGED calls
  \/ DisplayPage /\ UNCHANGED calls
  \/ DisplayChunk /\ UNCHANGED calls
  \/ DisplayEnd /\ UNCHANGED calls

SpecWin == InitWin /\ [][NextWin]_vars

\* display() is one call: once entered, its loops go on as long as they can.
DisplayStep == (DisplayPage \/ DisplayChunk \/ DisplayEnd) /\ UNCHANGED calls

NextTerm ==
  \/ \E x \in WideXs, y \in WideYs, c \in {SH110X_WHITE, SH110X_INVERSE} :
       DrawPixel(x, y, c) /\ UNCHANGED calls
  \/ DisplayBegin /\ UNCHANGED calls
  \/ DisplayStep

InitTerm == InitOn(DimsTerm, BusSizesTerm, MaxDrawsTerm, 0, FALSE)
SpecTerm == InitTerm /\ [][NextTerm]_vars /\ WF_vars(DisplayStep)

\* The life cycle with getPixel: construction, begin() once or again, drawing,
\* display() and reading pixels back.
NextBuf ==
  \/ \E alloc_ok, bus_ok, cmds_ok, ret \in BOOLEAN, junk \in Junk, splash \in SplashChoices :
       Begin(alloc_ok, bus_ok, cmds_ok, ret, junk, splash) /\ UNCHANGED calls
  \/ \E alloc_ok, bus_ok, cmds_ok \in BOOLEAN, junk \in Junk :
       Begin_GrayOLED(alloc_ok, bus_ok, cmds_ok, junk) /\ UNCHANGED calls
  \/ \E x \in GetXs, y \in GetYs, c \in {SH110X_INVERSE, 3} :
       DrawPixel(x, y, c) /\ UNCHANGED calls
  \/ ClearDisplay /\ UNCHANGED calls
  \/ \E x \in GetXs, y \in GetYs, ret \in BOOLEAN : GetPixelCall(x, y, ret)
  \/ DisplayBegin /\ UNCHANGED calls
  \/ DisplayPage /\ UNCHANGED calls
  \/ DisplayChunk /\ UNCHANGED calls
  \/ DisplayEnd /\ UNCHANGED calls

SpecBuf == InitLife /\ [][NextBuf]_vars

\* A bus on which every write succeeds.
Init == InitWith(MaxDraws, 0)
Spec == Init /\ [][Next]_vars

\* A bus on which writes may fail (busy, NACK).
InitFail == InitWith(MaxDrawsFail, MaxFailures)
SpecFail == InitFail /\ [][Next]_vars

\* ------------------------------------------------------------- properties
AfterDisplay == pc = "idle" /\ last_op = "display"
\* display() has left its page loop and not yet reset the window.
FlushDone == pc = "page" /\ ~(p < pages)

IsCmd(e) == e.kind = "cmd"
IsData(e) == e.kind = "data"
CmdLog == SelectSeq(log, IsCmd)
CmdPages == {CmdLog[i].page : i \in DOMAIN CmdLog}
DataCount(pg) == Cardinality({i \in DOMAIN log : IsData(log[i]) /\ log[i].page = pg})

IsEmpty(w) == w.x1 > w.x2 \/ w.y1 > w.y2
Covers(w, r) ==
  IsEmpty(r) \/ (w.x1 <= r.x1 /\ w.x2 >= r.x2 /\ w.y1 <= r.y1 /\ w.y2 >= r.y2)
Clamp(v, lo, hi) == Max(lo, Min(v, hi))
ColStart(w) == Clamp(w.x1, 0, WIDTH - 1)
ColEnd(w) == Clamp(w.x2, 0, WIDTH - 1)
ColLength(w) == ColEnd(w) - ColStart(w) + 1
CeilDiv(a, b) == (a + b - 1) \div b
\* The pages p with y1/8 <= p < ceil((y2+1)/8).
DirtyPages(w) == {pg \in 0 .. 255 : CDiv(w.y1, 8) <= pg /\ pg * 8 < w.y2 + 1}

FirstFail == CHOOSE i \in DOMAIN log : ~log[i].ok /\ \A j \in 1 .. i - 1 : log[j].ok
\* What of window w was not transmitted when write e failed: the rest of e's
\* page and every later page.
Remainder(w, e) ==
  [x1 |-> IF IsData(e) /\ (e.page + 1) * 8 > w.y2 THEN e.col ELSE w.x1,
   y1 |-> Max(w.y1, e.page * 8), x2 |-> w.x2, y2 |-> w.y2]

\* C1: when a bus write of display() fails, display() issues no further write
\* and leaves a dirty window that still covers what was dirty and not yet
\* transmitted.
C1_FailedFlushKeepsDirty ==
  (AfterDisplay /\ flush_failed) =>
    /\ FirstFail = Len(log)
    /\ ~IsEmpty(Remainder(pre, log[FirstFail])) =>
         (~IsEmpty(window) /\ Covers(window, Remainder(pre, log[FirstFail])))

\* C2: a display() that directly retries a failed display(), with no drawing in
\* between and with every write succeeding, selects and sends every page that
\* was dirty before the failed one.
C2_RetryResendsDirtyPages ==
  (AfterDisplay /\ retry_of # NoWindow /\ ~flush_failed) =>
    \A pg \in DirtyPages(retry_of) : pg \in CmdPages /\ DataCount(pg) > 0

\* C3: on a bus that never failed, after display() returns the controller's
\* RAM equals the framebuffer at every byte.
C3_FlushSyncsDevice ==
  (AfterDisplay /\ ~ever_failed) => devRam = buffer

C3_Witness ==
  /\ AfterDisplay /\ ~ever_failed
  /\ ~IsEmpty(pre) /\ pre # FullWindow /\ pre.x1 > 0 /\ pre.x1 < pre.x2
  /\ buffer # Zeros
  /\ Len(log) > 2

\* C4: after a display() in which every bus write succeeded the dirty window
\* is the empty sentinel: x1, y1 above every valid coordinate and x2, y2 below.
C4_SuccessfulFlushEmptiesWindow ==
  (AfterDisplay /\ ~flush_failed) =>
    /\ window.x1 > WIDTH - 1 /\ window.y1 > HEIGHT - 1
    /\ window.x2 < 0 /\ window.y2 < 0

C4_Witness ==
  /\ AfterDisplay /\ ~flush_failed /\ ever_failed
  /\ ~IsEmpty(pre) /\ pre # FullWindow
  /\ Len(log) > 0

\* C5: a display() entered with the dirty window in the sentinel state issues
\* no bus write at all, neither a page select nor a data chunk.
C5_EmptyWindowNoBusWrites ==
  (last_op = "display" /\ pre = UnsetWindow) => log = <<>>

C5_Witness ==
  /\ AfterDisplay /\ pre = UnsetWindow
  /\ buffer # Zeros /\ devRam = buffer

C7_SinglePixelFlush ==
  (FlushDone /\ ncalls = 1 /\ Cardinality(written) = 1) =>
    LET q == CHOOSE q \in written : TRUE
    IN /\ Len(log) = 2
       /\ IsCmd(log[1]) /\ log[1].page = q[2] \div 8 /\ log[1].col = q[1]
       /\ IsData(log[2]) /\ log[2].page = q[2] \div 8 /\ log[2].col = q[1]
       /\ Len(log[2].bytes) = 2

\* C8: for a non-empty dirty window inside the buffer, display() issues page
\* selects for exactly the pages y1/8 <= p < ceil((y2+1)/8), one for each.
C8_SelectsExactlyDirtyPages ==
  (AfterDisplay /\ ~IsEmpty(pre) /\ pre # NoWindow) =>
    /\ CmdPages = DirtyPages(pre)
    /\ Len(CmdLog) = Cardinality(DirtyPages(pre))

\* C9: for every page display() selected, it issues exactly ceil(L / (M - 1))
\* data transfers, L the length of the dirty column range and M the
\* transport's maxBufferSize().
C9_TransfersPerPage ==
  (AfterDisplay /\ pre # NoWindow) =>
    \A pg \in CmdPages : DataCount(pg) = CeilDiv(ColLength(pre), maxBufferSize - 1)

\* C10: every data transaction carries min(remaining bytes, maxBufferSize - 1)
\* payload bytes after one discriminator byte, and is no longer than
\* maxBufferSize.
C10_ChunkWithinBusSize ==
  \A i \in DOMAIN log :
    IsData(log[i]) =>
      LET e == log[i]
          remaining == ColLength(pre) - (e.col - ColStart(pre))
      IN /\ e.bytes[1] = DC_BYTE
         /\ Len(e.bytes) - 1 = Min(remaining, maxBufferSize - 1)
         /\ Len(e.bytes) <= maxBufferSize

\* ------------------------------------------------ properties of the pixels
LastCall == calls[Len(calls)]
\* The pixel operations are at rest and the last one was a drawPixel.
JustDrew == pc = "idle" /\ calls # <<>> /\ LastCall.op = "draw"
\* (x, y) is inside the logical bounds.
InRange(x, y) == 0 <= x /\ x < LogicalWidth /\ 0 <= y /\ y < LogicalHeight
Modes == {SH110X_BLACK, SH110X_WHITE, SH110X_INVERSE}

\* C11: under every rotation, getPixel(x, y) right after an in-range
\* drawPixel(x, y, color) is true for SH110X_WHITE, false for SH110X_BLACK
\* (whatever was drawn before) and the negation of the former value for
\* SH110X_INVERSE; after two SH110X_INVERSE calls at one coordinate it is the
\* value from before the two.
C11_SetThenGet ==
  (JustDrew /\ InRange(LastCall.x, LastCall.y)) =>
    LET c == LastCall
        now == GetPixel(c.x, c.y)
    IN /\ c.color = SH110X_WHITE => now
       /\ c.color = SH110X_BLACK => ~now
       /\ c.color = SH110X_INVERSE => (now = ~c.was)
       /\ (Len(calls) = 2 /\ calls[1].op = "draw" /\ calls[1].x = c.x /\ calls[1].y = c.y
             /\ calls[1].color = SH110X_INVERSE /\ c.color = SH110X_INVERSE) =>
            (now = calls[1].was)

C11_Witness ==
  /\ JustDrew /\ Len(calls) = 2 /\ calls[1].op = "draw"
  /\ calls[1].x = LastCall.x /\ calls[1].y = LastCall.y
  /\ calls[1].color = SH110X_INVERSE /\ LastCall.color = SH110X_INVERSE
  /\ LastCall.x = 1 /\ LastCall.y = 2
  /\ rotation = 3 /\ WIDTH > HEIGHT
  /\ ~GetPixel(1, 2)

\* C12: under every rotation a drawPixel outside the logical bounds (width and
\* height swapped under rotations 1 and 3) leaves every byte of the buffer and
\* the dirty window as they were and raises nothing, and getPixel there is
\* false.
C12_OutOfRangeIsNoOp ==
  /\ \A x \in -1 .. LogicalWidth, y \in -1 .. LogicalHeight :
       ~InRange(x, y) => ~GetPixel(x, y)
  /\ (calls # <<>> /\ LastCall.op = "draw" /\ ~InRange(LastCall.x, LastCall.y)) =>
       /\ buffer = LastCall.buf
       /\ window = LastCall.win
       /\ fault = "none" /\ pc = "idle"

\* A call outside the logical width that is inside the physical one.
C12_Witness ==
  /\ JustDrew /\ rotation = 1 /\ WIDTH > HEIGHT
  /\ LastCall.x = LogicalWidth /\ LastCall.x < WIDTH /\ LastCall.y = 0
  /\ LastCall.color = SH110X_WHITE
  /\ buffer # Zeros /\ window.x1 = window.x2 /\ window.y1 = window.y2

\* The coordinate transform as the specification gives it, and the byte and
\* bit it addresses.
SpecMap(x, y) ==
  CASE rotation = 0 -> <<x, y>>
    [] rotation = 1 -> <<WIDTH - y - 1, x>>
    [] rotation = 2 -> <<WIDTH - x - 1, HEIGHT - y - 1>>
    [] rotation = 3 -> <<y, HEIGHT - x - 1>>
SpecByte(x, y) == SpecMap(x, y)[1] + (SpecMap(x, y)[2] \div 8) * WIDTH
SpecBit(x, y) == SpecMap(x, y)[2] % 8

\* C17: the byte and bit that an in-range drawPixel(x, y, color) changes, and
\* the byte and bit that getPixel(x, y) reads, are those of the physical
\* coordinate (x, y), (W - y - 1, x), (W - x - 1, H - y - 1), (y, H - x - 1)
\* for rotations 0, 1, 2, 3.
C17_RotationMapping ==
  /\ \A x \in 0 .. LogicalWidth - 1, y \in 0 .. LogicalHeight - 1 :
       GetPixel(x, y) = (Bit(buffer[SpecByte(x, y)], SpecBit(x, y)) = 1)
  /\ (JustDrew /\ InRange(LastCall.x, LastCall.y) /\ LastCall.color \in Modes) =>
       LET c == LastCall
           v == c.buf[SpecByte(c.x, c.y)]
           b == SpecBit(c.x, c.y)
       IN buffer = [c.buf EXCEPT ![SpecByte(c.x, c.y)] =
                      CASE c.color = SH110X_WHITE -> OrBit(v, b)
                        [] c.color = SH110X_BLACK -> AndNotBit(v, b)
                        [] c.color = SH110X_INVERSE -> XorBit(v, b)]

C17_Witness ==
  /\ JustDrew /\ rotation = 1 /\ HEIGHT > 8 /\ WIDTH < HEIGHT
  /\ LastCall.x = 8 /\ LastCall.y = 0 /\ LastCall.color = SH110X_INVERSE
  /\ buffer[SpecByte(8, 0)] = 1
  /\ SpecByte(8, 0) = WIDTH - 1 + WIDTH

\* --------------------------------------------- properties of the life cycle
\* C14: a begin() that met an allocation failure or a failure of the bus to
\* begin returned false, issued no init command and wrote nothing to the
\* framebuffer.
C14_BeginFailureReturnsFalse ==
  (pc = "idle" /\ begin_info.fail \in {"alloc", "bus"}) =>
    /\ begin_info.result = FALSE
    /\ ~begin_info.init_sent
    /\ ~begin_info.cleared

\* C15: while there is no framebuffer no operation has gone through the null
\* buffer or the null transport, and nothing was written to the bus.
C15_UnallocatedShortCircuits ==
  ~allocated => (fault = "none" /\ log = <<>>)

\* C16: display() never calls maxBufferSize() or write() through a null
\* transport.
C16_TransportCheckedFirst ==
  fault # "display"

\* ------------------------------------------------- properties of display
\* The payload bytes display() sent for page pg, in the order sent.
PageData(pg) ==
  LET f[i \in 0 .. Len(log)] ==
        IF i = 0 THEN <<>>
        ELSE IF IsData(log[i]) /\ log[i].page = pg THEN f[i - 1] \o Tail(log[i].bytes)
        ELSE f[i - 1]
  IN f[Len(log)]

C18_PayloadIsDirtyColumns ==
  (FlushDone /\ pre # NoWindow) =>
    \A pg \in CmdPages :
      PageData(pg) = [k \in 1 .. ColLength(pre) |-> buffer[pg * WIDTH + ColStart(pre) + k - 1]]

\* C19: every page select is the four bytes 0x00, 0xB0 + p, 0x10 + (c >> 4),
\* c & 0x0F, and the data that follows it is for page p and starts at column c.
C19_PageSelectBytes ==
  \A i \in DOMAIN log :
    IsCmd(log[i]) =>
      LET e == log[i]
      IN /\ e.bytes = <<0, 176 + e.page, 16 + (e.col \div 16), e.col % 16>>
         /\ (i < Len(log) /\ IsData(log[i + 1])) =>
              (log[i + 1].page = e.page /\ log[i + 1].col = e.col)
         /\ (i < Len(log) /\ IsData(log[i + 1])) =>
              (Tail(log[i + 1].bytes)[1] = buffer[e.page * bytes_per_page + e.col])

\* A select of page 1 at a column above 15, with its data.
C19_Witness ==
  /\ FlushDone /\ Len(log) = 2
  /\ IsCmd(log[1]) /\ log[1].page = 1 /\ log[1].col = 17
  /\ log[1].bytes = <<0, 177, 17, 1>>
  /\ IsData(log[2]) /\ log[2].bytes = <<DC_BYTE, 1>>

\* C20: within one display() the bus writes go by ascending page; the page
\* select of a page comes after every write of the pages before it and before
\* every data write of its own page, and every data write has the page select
\* of its page before it.
C20_PageOrder ==
  /\ \A i, j \in DOMAIN log :
       i < j => /\ log[i].page <= log[j].page
                /\ IsCmd(log[j]) => log[i].page < log[j].page
  /\ \A j \in DOMAIN log :
       IsData(log[j]) => \E i \in 1 .. j - 1 : IsCmd(log[i]) /\ log[i].page = log[j].page

\* Two pages of two chunks each, one write of which failed.
C20_Witness ==
  /\ FlushDone /\ flush_failed
  /\ CmdPages = {0, 1} /\ DataCount(0) = 2 /\ DataCount(1) = 2
  /\ IsData(log[Len(log)])

C22_DisplayTerminates ==
  (pc # "idle") ~> (pc = "idle")

\* ------------------------------------------ properties of the pixel mapping
\* The physical coordinate is on the panel and its byte is in the buffer.
OnPanel(q) ==
  /\ 0 <= q[1] /\ q[1] < WIDTH
  /\ 0 <= q[2] /\ q[2] < HEIGHT
  /\ 0 <= BufIndex(q[1], q[2]) /\ BufIndex(q[1], q[2]) < WIDTH * CeilDiv(HEIGHT, 8)

\* C23: under every rotation, every logical (x, y) that passes the bounds check
\* of drawPixel or of getPixel is transformed to a physical (x', y') with
\* 0 <= x' < W and 0 <= y' < H, and the byte index x' + (y'/8)*W lies in
\* [0, W*ceil(H/8)); on non-square displays as well.
C23_TransformStaysInBuffer ==
  \A x \in -1 .. LogicalWidth, y \in -1 .. LogicalHeight :
    /\ InBounds(x, y) => OnPanel(Rotate(x, y))
    /\ InBoundsGet(x, y) => OnPanel(RotateGet(x, y))

\* The far corner drawn on a display that is higher than wide, turned.
C23_Witness ==
  /\ JustDrew /\ rotation = 1 /\ HEIGHT > WIDTH
  /\ LastCall.x = LogicalWidth - 1 /\ LastCall.y = LogicalHeight - 1
  /\ LastCall.x >= WIDTH
  /\ LastCall.color = SH110X_WHITE /\ ~LastCall.was
  /\ GetPixel(LastCall.x, LastCall.y)

\* getPixel(x, y) on the buffer buf.
PixelIn(buf, x, y) ==
  LET q == RotateGet(x, y) IN Bit(buf[BufIndex(q[1], q[2])], BitOf(q[2])) = 1
\* The bits in which the bytes v and w differ.
DiffBits(v, w) == {b \in 0 .. 7 : Bit(v, b) # Bit(w, b)}

\* C24: an in-range drawPixel(x, y, color) changes at most one bit of the
\* buffer: getPixel at every other in-range coordinate is what it was before
\* the call, and a color other than SH110X_BLACK, SH110X_WHITE and
\* SH110X_INVERSE changes no bit.
C24_AtMostOneBit ==
  (JustDrew /\ InRange(LastCall.x, LastCall.y)) =>
    LET c == LastCall
    IN /\ \A x \in 0 .. LogicalWidth - 1, y \in 0 .. LogicalHeight - 1 :
            <<x, y>> # <<c.x, c.y>> => (GetPixel(x, y) = PixelIn(c.buf, x, y))
       /\ Cardinality({<<i, b>> \in (DOMAIN buffer) \X (0 .. 7) :
                         b \in DiffBits(buffer[i], c.buf[i])}) <= 1
       /\ DOMAIN buffer = DOMAIN c.buf
       /\ c.color \notin Modes => buffer = c.buf

\* A pixel inverted next to a set one in the same byte.
C24_Witness ==
  /\ JustDrew /\ Len(calls) = 2 /\ rotation = 3 /\ HEIGHT > 8
  /\ calls[1].op = "draw" /\ calls[1].color = SH110X_WHITE
  /\ calls[1].x = 1 /\ calls[1].y = 0
  /\ LastCall.x = 2 /\ LastCall.y = 0 /\ LastCall.color = SH110X_INVERSE
  /\ GetPixel(1, 0) /\ GetPixel(2, 0)
  /\ \E i \in DOMAIN buffer : Cardinality(DiffBits(buffer[i], 0)) = 2

\* ------------------------------------------------ properties of the buffer
\* C25: the buffer is changed only by pixel writes and clears (those of begin()
\* included): no step of display() and no getPixel changes a byte of it, and
\* once allocated it keeps the length W*ceil(H/8), a repeated begin() included.
C25_BufferChangedOnlyByWrites ==
  [][/\ (allocated /\ buffer' # buffer) =>
          (pc = "idle" /\ calls' = calls /\ last_op' \in {"draw", "clear"})
     /\ allocated' => DOMAIN buffer' = 0 .. (WIDTH * CeilDiv(HEIGHT, 8)) - 1
     /\ allocated => (allocated' /\ DOMAIN buffer' = DOMAIN buffer)]_vars

\* A second begin() on the buffer of the first, then display() and getPixel of
\* a set pixel.
C25_Witness ==
  /\ pc = "idle" /\ allocated /\ begins_left = MaxBegins - 2
  /\ begin_info.fail = "none"
  /\ last_op = "display" /\ Len(log) > 2
  /\ calls # <<>> /\ LastCall.op = "get" /\ LastCall.was /\ LastCall.buf = buffer
  /\ buffer # Zeros

====
